---- MODULE Spec2Model ----
(***************************************************************************)
(* Model of the remote-archive acquisition code of geoips:                 *)
(*   - geoips/commandline/geoips_config.py : GeoipsConfigInstall           *)
(*       __call__, download_extract_test_data, extract_data_cautiously     *)
(*   - setup/download_test_data.py : main, download_from_git,              *)
(*       download_and_extract_compressed_tar                               *)
(*                                                                         *)
(* Python str values are sequences of one-character strings, so that       *)
(* os.path.join, os.path.abspath, str.startswith and the `in` substring    *)
(* test are computed character by character, as the interpreter does.      *)
(* The file system is two sets of normalised absolute paths (directories   *)
(* and regular files); there are no symbolic links in it.                  *)
(***************************************************************************)
EXTENDS Naturals, Sequences, FiniteSets, TLC

VARIABLES
    geoips_testdata_dir,  \* environ["GEOIPS_TESTDATA_DIR"]
    dirs,                 \* directories on disk
    files,                \* regular files on disk
    pc,                   \* position of the (single) thread of control
    rec,                  \* the invocation in progress, or the last one ended
    prev                  \* what the invocation before `rec` left behind

vars == <<geoips_testdata_dir, dirs, files, pc, rec, prev>>

---------------------------------------------------------------------------
(* String literals *)

\* '/'
Sep == <<"/">>
\* '/data'
S_data == <<"/", "d", "a", "t", "a">>
\* '/data/'
S_data_slash == <<"/", "d", "a", "t", "a", "/">>
\* '/out'
S_out == <<"/", "o", "u", "t">>
\* 'a.txt'
M_a == <<"a", ".", "t", "x", "t">>
\* 'sub/b.txt'
M_sub_b == <<"s", "u", "b", "/", "b", ".", "t", "x", "t">>
\* '../escape'
M_escape == <<".", ".", "/", "e", "s", "c", "a", "p", "e">>
\* '../data2/x'
M_sibling == <<".", ".", "/", "d", "a", "t", "a", "2", "/", "x">>
\* ''
M_empty == <<>>
\* '/data/x'
M_abs_inside == <<"/", "d", "a", "t", "a", "/", "x">>
\* '/etc/passwd'
M_passwd == <<"/", "e", "t", "c", "/", "p", "a", "s", "s", "w", "d">>
\* 'test_data_viirs/f'
M_viirs == <<"t", "e", "s", "t", "_", "d", "a", "t", "a", "_", "v", "i", "i", "r", "s", "/", "f">>
\* 'test_data_viirs'
N_viirs == <<"t", "e", "s", "t", "_", "d", "a", "t", "a", "_", "v", "i", "i", "r", "s">>
\* 'test_data_smap'
N_smap == <<"t", "e", "s", "t", "_", "d", "a", "t", "a", "_", "s", "m", "a", "p">>
\* 'https://example.com/x.git'
U_git == <<"h", "t", "t", "p", "s", ":", "/", "/", "e", "x", "a", "m", "p", "l", "e", ".", "c", "o", "m", "/", "x", ".", "g", "i", "t">>
\* 'https://example.com/x.tgz'
U_tgz == <<"h", "t", "t", "p", "s", ":", "/", "/", "e", "x", "a", "m", "p", "l", "e", ".", "c", "o", "m", "/", "x", ".", "t", "g", "z">>
\* 'https://example.com/x.zip'
U_zip == <<"h", "t", "t", "p", "s", ":", "/", "/", "e", "x", "a", "m", "p", "l", "e", ".", "c", "o", "m", "/", "x", ".", "z", "i", "p">>
\* 'https://x.github.io/a.tgz'
U_github_tgz == <<"h", "t", "t", "p", "s", ":", "/", "/", "x", ".", "g", "i", "t", "h", "u", "b", ".", "i", "o", "/", "a", ".", "t", "g", "z">>
\* '.git'
DotGit == <<".", "g", "i", "t">>
\* '.tgz'
DotTgz == <<".", "t", "g", "z">>

---------------------------------------------------------------------------
(* Inputs and bounds *)

\* Members read from one archive stream, at most.
MaxMembers == 2

\* Member names an archive may carry (tarinfo.name), trusted or not: those
\* the catalog's archives are fed with, and those of an ad-hoc archive.
InstallMemberNames ==
    {M_a, M_sub_b, M_escape, M_sibling, M_empty, M_abs_inside, M_viirs}

DownloadMemberNames ==
    {M_a, M_sub_b, M_escape, M_sibling, M_empty, M_abs_inside, M_passwd}

\* Values of GEOIPS_TESTDATA_DIR: an existing absolute directory, written
\* with or without a trailing separator.
TestdataDirs == {S_data, S_data_slash}

\* Status codes a server may answer with.
StatusCodes == {200, 204, 404}

\* What requests.get can produce: a transport failure (an exception) or a
\* response with a status code whose body is, or is not, a gzip tar stream.
Responses ==
    {[failed |-> TRUE, status_code |-> 0, is_tar |-> FALSE]}
    \cup {[failed |-> FALSE, status_code |-> s, is_tar |-> t] :
            s \in StatusCodes, t \in BOOLEAN}

\* Command lines of download_test_data.py: url and output_dir.
Urls == {U_git, U_tgz, U_zip, U_github_tgz}

OutputDirs == {S_data, S_out}

---------------------------------------------------------------------------
(* str operations *)

\* s.startswith(p)
startswith(s, p) ==
    /\ Len(p) <= Len(s)
    /\ SubSeq(s, 1, Len(p)) = p

\* sub in s
contains(s, sub) ==
    \E i \in 0..Len(s) :
        /\ i + Len(sub) <= Len(s)
        /\ SubSeq(s, i + 1, i + Len(sub)) = sub

\* s.split('/')
RECURSIVE split(_)
split(s) ==
    IF \A i \in 1..Len(s) : s[i] # "/"
    THEN <<s>>
    ELSE LET k == CHOOSE i \in 1..Len(s) :
                    /\ s[i] = "/"
                    /\ \A j \in 1..(i - 1) : s[j] # "/"
         IN  <<SubSeq(s, 1, k - 1)>> \o split(SubSeq(s, k + 1, Len(s)))

\* '/'.join(comps)
RECURSIVE joinsep(_)
joinsep(comps) ==
    IF Len(comps) = 0 THEN <<>>
    ELSE IF Len(comps) = 1 THEN comps[1]
    ELSE comps[1] \o Sep \o joinsep(Tail(comps))

\* s.rstrip('/')
RECURSIVE rstrip(_)
rstrip(s) ==
    IF Len(s) > 0 /\ s[Len(s)] = "/" THEN rstrip(SubSeq(s, 1, Len(s) - 1)) ELSE s

---------------------------------------------------------------------------
(* os.path (posixpath) *)

isabs(p) == startswith(p, Sep)

\* os.path.join(a, b)
join(a, b) ==
    IF isabs(b) THEN b
    ELSE IF Len(a) = 0 \/ a[Len(a)] = "/" THEN a \o b
    ELSE a \o Sep \o b

\* The component loop of posixpath.normpath.
RECURSIVE normcomps(_, _, _)
normcomps(comps, new_comps, initial_slashes) ==
    IF Len(comps) = 0 THEN new_comps
    ELSE LET comp == Head(comps)
             dotdot == <<".", ".">>
             n == Len(new_comps)
         IN  IF comp = <<>> \/ comp = <<".">>
             THEN normcomps(Tail(comps), new_comps, initial_slashes)
             ELSE IF \/ comp # dotdot
                     \/ (initial_slashes = 0 /\ n = 0)
                     \/ (n > 0 /\ new_comps[n] = dotdot)
             THEN normcomps(Tail(comps), Append(new_comps, comp), initial_slashes)
             ELSE IF n > 0
             THEN normcomps(Tail(comps), SubSeq(new_comps, 1, n - 1), initial_slashes)
             ELSE normcomps(Tail(comps), new_comps, initial_slashes)

\* os.path.normpath(path)
normpath(path) ==
    IF Len(path) = 0 THEN <<".">>
    ELSE LET initial_slashes ==
                 IF ~startswith(path, Sep) THEN 0
                 ELSE IF startswith(path, Sep \o Sep) /\ ~startswith(path, Sep \o Sep \o Sep)
                 THEN 2 ELSE 1
             body == joinsep(normcomps(split(path), <<>>, initial_slashes))
             out == IF initial_slashes = 2 THEN Sep \o Sep \o body
                    ELSE IF initial_slashes = 1 THEN Sep \o body
                    ELSE body
         IN  IF Len(out) = 0 THEN <<".">> ELSE out

\* os.getcwd(): the process runs in the file system's root.
getcwd == Sep

\* os.path.abspath(path)
abspath(path) ==
    IF isabs(path) THEN normpath(path) ELSE normpath(join(getcwd, path))

---------------------------------------------------------------------------
(* File system *)

\* os.path.exists(p), p normalised
exists(p) == p \in dirs \cup files

\* os.listdir(d) gone wrong: only the regular files are listed.
listdir_files_only(d) ==
    LET nd == normpath(d)
        under == {p \in files :
                    /\ startswith(p, nd \o Sep)
                    /\ Len(p) > Len(nd) + 1
                    /\ ~contains(SubSeq(p, Len(nd) + 2, Len(p)), Sep)}
    IN  {SubSeq(p, Len(nd) + 2, Len(p)) : p \in under}

\* os.listdir(d) gone wrong: the entries are listed by their full paths.
listdir_full_paths(d) ==
    LET nd == normpath(d)
    IN  {p \in dirs \cup files :
            /\ startswith(p, nd \o Sep)
            /\ Len(p) > Len(nd) + 1
            /\ ~contains(SubSeq(p, Len(nd) + 2, Len(p)), Sep)}

\* os.listdir(d): the names of the entries directly under d.
listdir(d) ==
    LET nd == normpath(d)
        under == {p \in dirs \cup files :
                    /\ startswith(p, nd \o Sep)
                    /\ Len(p) > Len(nd) + 1
                    /\ ~contains(SubSeq(p, Len(nd) + 2, Len(p)), Sep)}
    IN  {SubSeq(p, Len(nd) + 2, Len(p)) : p \in under}

\* The directory prefixes of a path as written: 'a/b/../c' has 'a', 'a/b'
\* and 'a/b/..'; the root itself is not listed.
prefixes(t) ==
    {SubSeq(t, 1, i - 1) : i \in {j \in 2..Len(t) : t[j] = "/"}}

\* TarFile.extract(member, path) of a regular-file member named `name`, as
\* the code calls it (no filter argument): the member is written at
\* os.path.join(path, name), missing upper directories are created, and an
\* OSError is raised (errorlevel 1) when a component of the path is a
\* regular file or the target is a directory.
tar_extract(path, name) ==
    LET targetpath == rstrip(join(path, name))
        target == normpath(targetpath)
        upper == {normpath(q) : q \in prefixes(targetpath)} \ {Sep}
        blocked == \E q \in upper : q \in files
        isdir == target \in dirs \/ target = Sep
    IN  IF blocked \/ isdir
        THEN [ok |-> FALSE, target |-> target, dirs |-> dirs, files |-> files]
        ELSE [ok |-> TRUE, target |-> target,
              dirs |-> dirs \cup upper, files |-> files \cup {target}]

---------------------------------------------------------------------------
(* Invocation records *)

\* exit: how control left the operation ("running" while it has not):
\*       "returned", "SystemExit" or "raised" (an exception that nothing
\*       in the operation catches, or that it re-raises).
\* msg:  what the operation printed last; exc: the exception class;
\* code: the status code carried by the message or exception (0: none).
NewRec(op, arg, dest) ==
    [op |-> op, arg |-> arg, dest |-> dest,
     dest_was_dir |-> normpath(dest) \in dirs,
     dest_was_empty |-> listdir(dest) = {},
     requests |-> 0, status |-> 0, is_tar |-> FALSE, opened |-> FALSE,
     seen |-> <<>>, approved |-> <<>>, handed |-> <<>>, written |-> {},
     exit |-> "running", msg |-> "", exc |-> "", code |-> 0, path |-> <<>>]

NoRec == NewRec("none", <<>>, <<>>)

\* What the invocation in `rec` leaves behind when the next one starts.
Summary ==
    [op |-> rec.op, arg |-> rec.arg, installed |-> rec.msg = "installed",
     entry |-> /\ rec.op = "install"
               /\ exists(join(normpath(rec.dest), rec.arg))]

Raised(r, exc, code) ==
    [r EXCEPT !.exit = "raised", !.exc = exc, !.code = code]

---------------------------------------------------------------------------
(* geoips config install *)

\* GeoipsConfigInstall.test_dataset_dict (two of its nine entries)
test_dataset_dict ==
    (N_viirs :> "https://io.cira.colostate.edu/s/mQ2HbE2Js4E9rba/download/test_data_viirs.tgz")
    @@ (N_smap :> "https://io.cira.colostate.edu/s/CezXWwXg4qR2b94/download/test_data_smap.tgz")

\* The test of line 126, as the loop applies it to a member name:
\* abspath(join(download_dir, m.name)).startswith(download_dir)
PathCheck(download_dir, name) ==
    startswith(abspath(join(download_dir, name)), download_dir)

\* The unsafe member is skipped and the loop goes on.
on_unsafe_skip(r) ==
    [rec |-> r, pc |-> "extract", dirs |-> dirs, files |-> files]

\* raise SystemExit("Found unsafe filepath in tar, exiting now.")
on_unsafe(r) ==
    [rec |-> [r EXCEPT !.exit = "SystemExit", !.msg = "unsafe_filepath"],
     pc |-> "idle", dirs |-> dirs, files |-> files]

\* tar.extract(m, path=download_dir)
on_safe(r, name) ==
    LET x == tar_extract(r.dest, name)
        r1 == [r EXCEPT !.handed = Append(@, join(r.dest, name))]
    IN  IF x.ok
        THEN [rec |-> [r1 EXCEPT !.written = @ \cup {x.target}],
              pc |-> "extract", dirs |-> x.dirs, files |-> x.files]
        ELSE [rec |-> Raised(r1, "OSError", 0),
              pc |-> "idle", dirs |-> dirs, files |-> files]

\* The body of the loop of extract_data_cautiously for the member `name`.
loop_body(r, name) ==
    LET ok == PathCheck(r.dest, name)
        r1 == [r EXCEPT !.seen = Append(@, name), !.approved = Append(@, ok)]
    IN  IF ~ok THEN on_unsafe(r1) ELSE on_safe(r1, name)

\* download_extract_test_data(url, download_dir), up to the opening of the
\* archive; the members are read by extract_data_cautiously_next.
download_extract_test_data(r, url, resp) ==
    LET r1 == [r EXCEPT !.requests = @ + 1]
    IN  IF resp.failed
        THEN [rec |-> Raised(r1, "ConnectionError", 0), pc |-> "idle"]
        ELSE LET r2 == [r1 EXCEPT !.status = resp.status_code,
                                  !.is_tar = resp.is_tar]
             IN  IF resp.status_code = 200
                 THEN IF resp.is_tar
                      THEN [rec |-> [r2 EXCEPT !.opened = TRUE], pc |-> "extract"]
                      ELSE [rec |-> Raised([r2 EXCEPT !.opened = TRUE], "ReadError", 0),
                            pc |-> "idle"]
                 ELSE [rec |-> [r2 EXCEPT !.exit = "SystemExit",
                                          !.msg = "status_code",
                                          !.code = resp.status_code],
                       pc |-> "idle"]

\* GeoipsConfigInstall.__call__(args), args.test_dataset_name = name
GeoipsConfigInstall_call(name) ==
    /\ pc = "idle"
    /\ prev' = Summary
    /\ LET r == NewRec("install", name, geoips_testdata_dir)
       IN  IF name \in listdir(geoips_testdata_dir)
           THEN /\ rec' = [r EXCEPT !.exit = "returned",
                                    !.msg = "already_exists",
                                    !.path = join(geoips_testdata_dir, name)]
                /\ pc' = "idle"
           ELSE \E resp \in Responses :
                    LET res == download_extract_test_data(r, test_dataset_dict[name], resp)
                    IN  /\ rec' = res.rec
                        /\ pc' = res.pc
    /\ UNCHANGED <<geoips_testdata_dir, dirs, files>>

\* One iteration of `for m in tar` in extract_data_cautiously.
extract_data_cautiously_member ==
    /\ pc = "extract"
    /\ rec.op = "install"
    /\ Len(rec.seen) < MaxMembers
    /\ \E name \in InstallMemberNames :
           LET res == loop_body(rec, name)
           IN  /\ rec' = res.rec
               /\ pc' = res.pc
               /\ dirs' = res.dirs
               /\ files' = res.files
    /\ UNCHANGED <<geoips_testdata_dir, prev>>

\* The stream ends or breaks: tarfile raises ReadError on a truncated
\* stream, which nothing catches.
extract_data_cautiously_broken ==
    /\ pc = "extract"
    /\ rec.op = "install"
    /\ rec' = Raised(rec, "ReadError", 0)
    /\ pc' = "idle"
    /\ UNCHANGED <<geoips_testdata_dir, dirs, files, prev>>

\* The loop ends; control returns to __call__, which reports the install
\* under f"{geoips_testdata_dir}/{test_dataset_name}/" (lines 81-83).
extract_data_cautiously_end ==
    /\ pc = "extract"
    /\ rec.op = "install"
    /\ rec' = [rec EXCEPT !.exit = "returned", !.msg = "installed",
                          !.path = rec.dest \o Sep \o rec.arg \o Sep]
    /\ pc' = "idle"
    /\ UNCHANGED <<geoips_testdata_dir, dirs, files, prev>>

InitInstall ==
    /\ geoips_testdata_dir \in TestdataDirs
    /\ dirs = {S_data}
    /\ files = {}
    /\ pc = "idle"
    /\ rec = NoRec
    /\ prev = [op |-> "none", arg |-> <<>>, installed |-> FALSE, entry |-> FALSE]

NextInstall ==
    \/ \E name \in DOMAIN test_dataset_dict : GeoipsConfigInstall_call(name)
    \/ extract_data_cautiously_member
    \/ extract_data_cautiously_broken
    \/ extract_data_cautiously_end

SpecInstall == InitInstall /\ [][NextInstall]_vars

---------------------------------------------------------------------------
(* setup/download_test_data.py *)

\* download_from_git(repo_url, destination): `git clone` either succeeds,
\* leaving the directory `destination`, or fails with CalledProcessError,
\* which is caught, printed and not re-raised.  It cannot succeed onto a
\* regular file.
download_from_git(r, cloned) ==
    IF cloned
    THEN [rec |-> [r EXCEPT !.exit = "returned", !.msg = "cloned"],
          pc |-> "idle", dirs |-> dirs \cup {normpath(r.dest)}, files |-> files]
    ELSE [rec |-> [r EXCEPT !.exit = "returned", !.msg = "clone_failed"],
          pc |-> "idle", dirs |-> dirs, files |-> files]

\* The except clause of download_and_extract_compressed_tar: print
\* "Failed to download or extract files." and raise the exception again.
reraise(r, exc, code) ==
    [Raised(r, exc, code) EXCEPT !.msg = "failed_download"]

\* Response.raise_for_status(): HTTPError for 400 <= status_code < 600.
raises_for_status(status_code) ==
    400 <= status_code /\ status_code < 600

\* download_and_extract_compressed_tar(url, dest), up to the opening of the
\* archive; the members are read by extractall_member.
download_and_extract_compressed_tar(r, resp) ==
    LET r1 == [r EXCEPT !.requests = @ + 1]
        r2 == [r1 EXCEPT !.status = resp.status_code, !.is_tar = resp.is_tar]
        dest == normpath(r.dest)
        same == [pc |-> "idle", dirs |-> dirs, files |-> files]
    IN  IF resp.failed
        THEN [rec |-> reraise(r1, "ConnectionError", 0)] @@ same
        ELSE IF raises_for_status(resp.status_code)
        THEN [rec |-> reraise(r2, "HTTPError", resp.status_code)] @@ same
        \* open(dest, "wb")
        ELSE IF dest \in dirs
        THEN [rec |-> reraise(r2, "OSError", 0)] @@ same
        \* tarfile.open(fileobj=r.raw, mode="r|gz")
        ELSE IF ~resp.is_tar
        THEN [rec |-> reraise([r2 EXCEPT !.opened = TRUE], "ReadError", 0),
              pc |-> "idle", dirs |-> dirs, files |-> files \cup {dest}]
        ELSE [rec |-> [r2 EXCEPT !.opened = TRUE],
              pc |-> "extractall", dirs |-> dirs, files |-> files \cup {dest}]

\* The branch main() selects for a url (lines 81-88).
dispatch(url) ==
    IF contains(url, DotGit) THEN "clone"
    ELSE IF contains(url, DotTgz) THEN "tar"
    ELSE "unsupported"

\* main(), with args.url = url and args.output_dir = output_dir
main(url, output_dir) ==
    /\ pc = "idle"
    /\ prev' = Summary
    /\ LET r == NewRec(dispatch(url), url, output_dir)
       IN  \E res \in
               IF r.op = "clone"
               THEN {download_from_git(r, cloned) :
                       cloned \in {c \in BOOLEAN : c => normpath(output_dir) \notin files}}
               ELSE IF r.op = "tar"
               THEN {download_and_extract_compressed_tar(r, resp) : resp \in Responses}
               ELSE {[rec |-> [r EXCEPT !.exit = "returned", !.msg = "unsupported_url"],
                      pc |-> "idle", dirs |-> dirs, files |-> files]} :
               /\ rec' = res.rec
               /\ pc' = res.pc
               /\ dirs' = res.dirs
               /\ files' = res.files
    /\ UNCHANGED geoips_testdata_dir

\* tar.extractall(path=dest) reaches the next member of the stream: it is
\* extracted as it comes, an OSError ends the call.
extractall_member ==
    /\ pc = "extractall"
    /\ Len(rec.seen) < MaxMembers
    /\ \E name \in DownloadMemberNames :
           LET x == tar_extract(rec.dest, name)
               r1 == [rec EXCEPT !.seen = Append(@, name),
                                 !.handed = Append(@, join(rec.dest, name))]
           IN  /\ rec' = IF x.ok THEN [r1 EXCEPT !.written = @ \cup {x.target}]
                         ELSE reraise(r1, "OSError", 0)
               /\ pc' = IF x.ok THEN "extractall" ELSE "idle"
               /\ dirs' = x.dirs
               /\ files' = x.files
    /\ UNCHANGED <<geoips_testdata_dir, prev>>

\* The stream breaks: ReadError, printed and raised again.
extractall_broken ==
    /\ pc = "extractall"
    /\ rec' = reraise(rec, "ReadError", 0)
    /\ pc' = "idle"
    /\ UNCHANGED <<geoips_testdata_dir, dirs, files, prev>>

\* The stream ends: "Files successfully downloaded and extracted."
extractall_end ==
    /\ pc = "extractall"
    /\ rec' = [rec EXCEPT !.exit = "returned", !.msg = "extracted"]
    /\ pc' = "idle"
    /\ UNCHANGED <<geoips_testdata_dir, dirs, files, prev>>

InitDownload ==
    /\ geoips_testdata_dir = S_data
    /\ dirs = {S_data}
    /\ files = {}
    /\ pc = "idle"
    /\ rec = NoRec
    /\ prev = [op |-> "none", arg |-> <<>>, installed |-> FALSE, entry |-> FALSE]

NextDownload ==
    \/ \E url \in Urls, output_dir \in OutputDirs : main(url, output_dir)
    \/ extractall_member
    \/ extractall_broken
    \/ extractall_end

SpecDownload == InitDownload /\ [][NextDownload]_vars

---------------------------------------------------------------------------
(* Properties *)

\* p is root itself or lies below it, segment by segment (both normalised).
Under(root, p) ==
    \/ p = root
    \/ startswith(p, IF root = Sep THEN Sep ELSE root \o Sep)

\* p lies strictly below root.
StrictlyUnder(root, p) ==
    p # root /\ Under(root, p)

\* s.endswith(suffix)
endswith(s, suffix) ==
    /\ Len(suffix) <= Len(s)
    /\ SubSeq(s, Len(s) - Len(suffix) + 1, Len(s)) = suffix

\* C1: every path extract_data_cautiously hands to tar.extract normalises
\* to download_dir or to a path below it, segment by segment, and nothing is
\* written anywhere else.
ClaimC1 ==
    rec.op = "install" =>
        /\ \A i \in 1..Len(rec.handed) :
               Under(normpath(rec.dest), normpath(rec.handed[i]))
        /\ \A w \in rec.written : Under(normpath(rec.dest), w)

TheoremC3 ==
    [][(/\ pc = "idle"
        /\ exists(join(normpath(geoips_testdata_dir), rec'.arg)))
       => /\ pc' = "idle"
          /\ rec'.exit = "returned"
          /\ rec'.msg = "already_exists"
          /\ rec'.path = join(geoips_testdata_dir, rec'.arg)
          /\ rec'.requests = 0
          /\ ~rec'.opened
          /\ rec'.handed = <<>>
          /\ dirs' = dirs
          /\ files' = files]_vars

\* A call has found its dataset on disk.
WitnessC3 ==
    /\ rec.op = "install"
    /\ rec.msg = "already_exists"
    /\ rec.requests = 0
    /\ exists(join(normpath(geoips_testdata_dir), rec.arg))
    /\ prev.op = "install"

\* C4 as stated: the second of two consecutive installs of one dataset
\* finds it present and sends no request.
ClaimC4 ==
    (/\ rec.op = "install"
     /\ prev.op = "install"
     /\ prev.arg = rec.arg)
    => /\ rec.msg = "already_exists"
       /\ rec.requests = 0

\* C4, amended: the second of two consecutive installs of one dataset finds
\* it present and sends no request, provided the first one ended with an
\* entry of that name directly under the destination root.
TheoremC4 ==
    (/\ rec.op = "install"
     /\ prev.op = "install"
     /\ prev.arg = rec.arg
     /\ prev.entry)
    => /\ rec.exit = "returned"
       /\ rec.msg = "already_exists"
       /\ rec.requests = 0
       /\ rec.handed = <<>>

\* The first install extracted the dataset, the second one found it.
WitnessC4 ==
    /\ rec.op = "install"
    /\ prev.op = "install"
    /\ prev.arg = rec.arg
    /\ prev.installed
    /\ prev.entry
    /\ rec.msg = "already_exists"

\* C5: a response whose status is not 200 is never opened as an archive and
\* none of its members is extracted, and the operation ends reporting an
\* HTTP error that carries the status code.
ClaimC5 ==
    (rec.requests > 0 /\ rec.status \notin {0, 200}) =>
        /\ ~rec.opened
        /\ rec.handed = <<>>
        /\ rec.written = {}
        /\ rec.exit # "running" =>
               /\ rec.code = rec.status
               /\ rec.exc = "HTTPError" \/ rec.msg = "status_code"

\* C6: a url that ends in .tgz takes the fetch-and-extract branch, the clone
\* branch sends no request, and a url of neither kind ends in failure, not
\* in a normal return.
ClaimC6 ==
    rec.op \in {"clone", "tar", "unsupported"} =>
        /\ endswith(rec.arg, DotTgz) => rec.op = "tar"
        /\ rec.op = "clone" => rec.requests = 0
        /\ rec.op = "unsupported" =>
               /\ rec.requests = 0
               /\ rec.exit # "returned"

\* C7: the path check rejects the empty name and every absolute name, and
\* approves only non-empty relative names that stay strictly inside the
\* root.
ClaimC7 ==
    rec.op = "install" =>
        \A i \in 1..Len(rec.seen) :
            LET name == rec.seen[i]
            IN  /\ (name = <<>> \/ isabs(name)) => ~rec.approved[i]
                /\ rec.approved[i] =>
                       /\ name # <<>>
                       /\ ~isabs(name)
                       /\ StrictlyUnder(normpath(rec.dest),
                                        normpath(join(rec.dest, name)))

\* C8: no failure of an install leaves the operation as an exception that
\* nothing has caught; a transport failure of the GET in particular is
\* reported as an outcome of its own.
ClaimC8 ==
    rec.op = "install" => rec.exit # "raised"

\* C9: every member download_and_extract_compressed_tar extracts passes the
\* path check of the install command against dest, and nothing is written
\* outside dest.
ClaimC9 ==
    rec.op = "tar" =>
        /\ \A i \in 1..Len(rec.handed) : PathCheck(rec.dest, rec.seen[i])
        /\ \A w \in rec.written : Under(normpath(rec.dest), w)

\* C10: with a 200 response carrying a well-formed archive of safe relative
\* members and dest an existing empty directory, the operation does not
\* fail on the file system, and when it has returned the members it read
\* are on disk under dest.
ClaimC10 ==
    (/\ rec.op = "tar"
     /\ rec.status = 200
     /\ rec.is_tar
     /\ rec.dest_was_dir
     /\ rec.dest_was_empty
     /\ \A i \in 1..Len(rec.seen) :
            /\ ~isabs(rec.seen[i])
            /\ StrictlyUnder(normpath(rec.dest),
                             normpath(join(rec.dest, rec.seen[i]))))
    => /\ ~(rec.exit = "raised" /\ rec.exc = "OSError")
       /\ rec.exit = "returned" =>
              /\ rec.msg = "extracted"
              /\ rec.written =
                     {normpath(join(rec.dest, rec.seen[i])) : i \in 1..Len(rec.seen)}
              /\ rec.written \subseteq files
====
